---- MODULE Spec2Model ----
(***************************************************************************)
(* A model of warehouse/oso_dagster/goldsky.py: the checkpoint queue       *)
(* (GoldskyQueue, GoldskyQueues) and the batch merge of GoldskyDuckDB      *)
(* (load_and_merge).                                                       *)
(***************************************************************************)
EXTENDS Bags, FiniteSets, Integers, Sequences, TLC

(* ------------------------------ bounds -------------------------------- *)

\* Largest cap (max_size) a queue is constructed with.
MaxCap == 2

\* Largest number of items pending in a queue at one time.
MaxPending == 3

\* Checkpoint ordinals are drawn from 1..MaxCheckpoint.
MaxCheckpoint == 3

\* Largest number of load_and_merge calls in one run of the engine; batch
\* ids are drawn from 0..MaxCalls - 1.
MaxCalls == 2

\* The most items pending in one queue of the GoldskyQueues object.
MaxRegPending == 2

\* The most load_and_merge calls of a caller that merges its batches in order.
MaxSeqCalls == 3

(* ------------------------------ values -------------------------------- *)

\* Names of the raw blobs a queue item may refer to.
QueueBlobNames == {"b1", "b2"}

\* GoldskyQueueItem: a checkpoint ordinal and the blob holding its records.
GoldskyQueueItem == [checkpoint : 1..MaxCheckpoint, blob_name : QueueBlobNames]

\* Mutant of Lt: the comparison turned round (a max-heap).
Lt_Reversed(a, b) == a.checkpoint > b.checkpoint

\* GoldskyQueueItem.__lt__: items compare by checkpoint alone.
Lt(a, b) == a.checkpoint < b.checkpoint

\* Python's None, and a returned value, as a sequence of at most one element.
None == <<>>

Some(x) == <<x>>

(* --------------------------- heapq (CPython) --------------------------- *)
\* The list self.queue is a 0-based array; position p is element p + 1 here.

\* heapq._siftdown(heap, startpos, pos) with newitem the item being placed.
RECURSIVE SiftDownFrom(_, _, _, _)
SiftDownFrom(heap, startpos, pos, newitem) ==
    IF pos > startpos
    THEN LET parentpos == (pos - 1) \div 2
             parent == heap[parentpos + 1]
         IN  IF Lt(newitem, parent)
             THEN SiftDownFrom([heap EXCEPT ![pos + 1] = parent],
                               startpos, parentpos, newitem)
             ELSE [heap EXCEPT ![pos + 1] = newitem]
    ELSE [heap EXCEPT ![pos + 1] = newitem]

SiftDown(heap, startpos, pos) == SiftDownFrom(heap, startpos, pos, heap[pos + 1])

\* heapq._siftup(heap, pos): bubble the smaller child up to a leaf, then
\* sift the displaced item down from there.
RECURSIVE SiftUpFrom(_, _, _, _)
SiftUpFrom(heap, startpos, pos, newitem) ==
    LET endpos == Len(heap)
        leftpos == 2 * pos + 1
        rightpos == leftpos + 1
        childpos == IF rightpos < endpos
                       /\ ~Lt(heap[leftpos + 1], heap[rightpos + 1])
                    THEN rightpos
                    ELSE leftpos
    IN  IF leftpos < endpos
        THEN SiftUpFrom([heap EXCEPT ![pos + 1] = heap[childpos + 1]],
                        startpos, childpos, newitem)
        ELSE SiftDown([heap EXCEPT ![pos + 1] = newitem], startpos, pos)

SiftUp(heap, pos) == SiftUpFrom(heap, pos, pos, heap[pos + 1])

\* heapq.heappush(heap, item)
HeapPush(heap, item) == SiftDown(Append(heap, item), 0, Len(heap))

\* Mutant of HeapPop: list.pop(), the last item of the list is taken.
HeapPop_Last(heap) ==
    [item |-> heap[Len(heap)], heap |-> SubSeq(heap, 1, Len(heap) - 1)]

\* heapq.heappop(heap) on a non-empty heap: the item returned and the heap left.
HeapPop(heap) ==
    LET lastelt == heap[Len(heap)]
        rest == SubSeq(heap, 1, Len(heap) - 1)
    IN  IF rest # <<>>
        THEN [item |-> rest[1], heap |-> SiftUp([rest EXCEPT ![1] = lastelt], 0)]
        ELSE [item |-> lastelt, heap |-> rest]

(* ----------------------------- GoldskyQueue ---------------------------- *)

\* GoldskyQueue.__init__
NewQueue(max_size) == [queue |-> <<>>, _dequeues |-> 0, max_size |-> max_size]

\* GoldskyQueue.enqueue: the queue object after the call.
QueueEnqueue(q, item) == [q EXCEPT !.queue = HeapPush(q.queue, item)]

\* Mutant of CapReached: the cap test off by one.
CapReached_OffByOne(q) == q._dequeues > q.max_size

\* The cap test at the head of GoldskyQueue.dequeue.
CapReached(q) == q._dequeues > q.max_size - 1

\* Mutant of QueueDequeue: the item is popped before the cap is tested, so a
\* capped dequeue drops an item.
QueueDequeue_PopFirst(q) ==
    IF q.queue = <<>>
    THEN [ret |-> None, q |-> q]
    ELSE LET p == HeapPop(q.queue)
         IN  IF CapReached(q)
             THEN [ret |-> None, q |-> [q EXCEPT !.queue = p.heap]]
             ELSE [ret |-> Some(p.item),
                   q |-> [q EXCEPT !.queue = p.heap, !._dequeues = @ + 1]]

\* Mutant of QueueDequeue: _dequeues is counted before heappop is tried, so
\* a dequeue that finds the heap empty uses up a dequeue.
QueueDequeue_CountFirst(q) ==
    IF CapReached(q)
    THEN [ret |-> None, q |-> q]
    ELSE IF q.queue = <<>>
         THEN [ret |-> None, q |-> [q EXCEPT !._dequeues = @ + 1]]
         ELSE LET p == HeapPop(q.queue)
              IN  [ret |-> Some(p.item),
                   q |-> [q EXCEPT !.queue = p.heap, !._dequeues = @ + 1]]

\* GoldskyQueue.dequeue: the value returned and the queue object after the call.
QueueDequeue(q) ==
    IF CapReached(q)
    THEN [ret |-> None, q |-> q]
    ELSE IF q.queue = <<>>
         THEN [ret |-> None, q |-> q]
         ELSE LET p == HeapPop(q.queue)
              IN  [ret |-> Some(p.item),
                   q |-> [q EXCEPT !.queue = p.heap, !._dequeues = @ + 1]]

\* GoldskyQueue.len
QueueLen(q) == Len(q.queue)

(* --------------------------- relations (SQL) --------------------------- *)
\* A table is a bag of rows. Rows of a blob are [id, val]; rows of a checkpoint
\* or merged table are [checkpoint_order, id, val]; rows of a merged_ids or
\* delete_patch table are [id].

\* The rows of table T whose id is not in the set ids.
DeleteWhereIdIn(T, ids) == [r \in {x \in DOMAIN T : x.id \notin ids} |-> T[r]]

\* The set of ids occurring in table T.
IdSet(T) == {r.id : r \in DOMAIN T}

\* The number of rows of table T with identifier x.
RECURSIVE SumCounts(_, _)
SumCounts(T, rows) ==
    IF rows = {} THEN 0
    ELSE LET r == CHOOSE x \in rows : TRUE
         IN  T[r] + SumCounts(T, rows \ {r})

IdCount(T, x) == SumCounts(T, {r \in DOMAIN T : r.id = x})

\* SELECT {i} AS checkpoint_order, * FROM read_parquet(...)
WithCheckpointOrder(i, B) ==
    [r \in {[checkpoint_order |-> i, id |-> x.id, val |-> x.val] : x \in DOMAIN B}
        |-> B[[id |-> r.id, val |-> r.val]]]

\* SELECT id as "id" FROM merged_table
SelectId(T) == [r \in {[id |-> x] : x \in IdSet(T)} |-> IdCount(T, r.id)]

\* SELECT m.id FROM merged AS m INNER JOIN checkpoint AS ch ON m.id = ch.id,
\* as the set the DELETE ... WHERE id IN (...) tests against.
JoinedIds(m, ch) == IdSet(m) \cap IdSet(ch)

\* Mutant of MergeInto: the rows already merged win and only the rows of the
\* checkpoint table with a new id are inserted (oldest checkpoint wins).
MergeInto_KeepOld(m, ch) == m (+) DeleteWhereIdIn(ch, JoinedIds(m, ch))

\* One pass of the merge loop: the rows of merged whose id the checkpoint
\* table holds too are deleted when the join is not empty, then every row of
\* the checkpoint table is inserted.
MergeInto(m, ch) ==
    LET rows == JoinedIds(m, ch)
        kept == IF rows # {} THEN DeleteWhereIdIn(m, rows) ELSE m
    IN  kept (+) ch

\* Mutant of DeletePatchRows: every id of the previous snapshot (the join lost).
DeletePatchRows_AllPrevious(pmi, m) == pmi

\* SELECT pmi.id FROM merged_ids_prev AS pmi INNER JOIN merged AS m
\*   ON m.id = pmi.id
DeletePatchRows(pmi, m) ==
    [r \in {x \in DOMAIN pmi : x.id \in IdSet(m)} |-> pmi[r] * IdCount(m, r.id)]

(* ------------------------ names and paths (f-strings) ------------------ *)
\* A table name is the sequence of its parts between underscores; a worker
\* name is the sequence of its own parts.

\* str(n) of a small non-negative integer.
ToStr(n) == <<"0", "1", "2", "3", "4", "5", "6", "7", "8", "9">>[n + 1]

\* f"checkpoint_{worker}_{batch_id}_{i}"
checkpoint_temp_table(worker, batch_id, i) ==
    <<"checkpoint">> \o worker \o <<ToStr(batch_id), ToStr(i)>>

\* f"merged_{worker}_{batch_id}"
merged_table(worker, batch_id) == <<"merged">> \o worker \o <<ToStr(batch_id)>>

\* f"merged_ids_{worker}_{batch_id}"
merged_ids_table(worker, batch_id) ==
    <<"merged", "ids">> \o worker \o <<ToStr(batch_id)>>

\* f"delete_patch_{worker}_{prev_batch_id}"
delete_patch_table(worker, batch_id) ==
    <<"delete", "patch">> \o worker \o <<ToStr(batch_id)>>

\* GoldskyDuckDB.full_dest_table_path
full_dest_table_path(worker, batch_id) ==
    [worker |-> worker, file |-> <<"table", ToStr(batch_id)>>]

\* GoldskyDuckDB.full_dest_delete_path
full_dest_delete_path(worker, batch_id) ==
    [worker |-> worker, file |-> <<"delete", ToStr(batch_id)>>]

\* GoldskyDuckDB.full_dest_deduped_path
full_dest_deduped_path(worker, batch_id) ==
    [worker |-> worker, file |-> <<"deduped", ToStr(batch_id)>>]

\* f"deduped_{worker}_{batch_id}"
deduped_table(worker, batch_id) == <<"deduped">> \o worker \o <<ToStr(batch_id)>>

(* ------------------------------ the bucket ----------------------------- *)

\* The raw blobs of the bucket, b1 the oldest checkpoint and b3 the newest,
\* and the records each holds; val names the version of a record, here the
\* blob it comes from. A is in b1 alone, B in b1 and b2, C in b1 and b3, D in
\* b2 and b3; b2 holds two rows of B.
BlobStore ==
    [b \in {"b1", "b2", "b3"} |->
        CASE b = "b1" -> SetToBag({[id |-> "A", val |-> "b1"], [id |-> "B", val |-> "b1"],
                                   [id |-> "C", val |-> "b1"]})
          [] b = "b2" -> [r \in {[id |-> "B", val |-> "b2"], [id |-> "D", val |-> "b2"]}
                            |-> IF r.id = "B" THEN 2 ELSE 1]
          [] b = "b3" -> SetToBag({[id |-> "C", val |-> "b3"], [id |-> "D", val |-> "b3"]})]

BlobNames == DOMAIN BlobStore

\* The checkpoint a blob was written at.
CheckpointOf(b) == CASE b = "b1" -> 1 [] b = "b2" -> 2 [] b = "b3" -> 3

\* The blob lists a batch may name: blobs in ascending checkpoint order
\* (oldest first), the empty list included.
BlobLists ==
    UNION {{s \in [1..n -> BlobNames] :
                \A i, j \in 1..n : i < j => CheckpointOf(s[i]) < CheckpointOf(s[j])}
             : n \in 0..Cardinality(BlobNames)}

\* read_parquet(file_ref) of a readable blob.
ReadParquet(blob) == BlobStore[blob]

\* The workers merged.
Workers == {<<"x">>}

BatchIds == 0..(MaxCalls - 1)

(* ------------------------------- state --------------------------------- *)

VARIABLES
    gq,        \* one GoldskyQueue object: its queue, _dequeues and max_size
    returned,  \* history: the items its dequeue calls have returned, in order
    last,      \* history: the latest call on gq and what it returned
    tables,    \* the DuckDB connection's catalog: table name -> rows
    artifacts, \* the bucket's destination files: path -> rows
    call,      \* the load_and_merge call in progress: its arguments, locals, place
    result,    \* how the latest finished load_and_merge call ended
    ncalls,    \* the number of load_and_merge calls started
    dropped,   \* history: the snapshot the call in progress has dropped
    rd,        \* the remove_dupes call in progress or finished
    gqs,       \* one GoldskyQueues object: its queues map and max_size
    rlast      \* history: the latest call on the GoldskyQueues object

qvars == <<gq, returned, last>>

mvars == <<tables, artifacts, call, result, ncalls, dropped, rd>>

rvars == <<gqs, rlast>>

vars ==
    <<gq, returned, last, tables, artifacts, call, result, ncalls, dropped, rd,
      gqs, rlast>>

\* No call in progress.
Idle ==
    [pc |-> "idle", worker |-> <<>>, batch_id |-> 0, blob_names |-> <<>>,
     i |-> 0, checkpoint_temp_tables |-> <<>>, retry |-> FALSE, rerun |-> FALSE]

NoResult ==
    [status |-> "none", at |-> "idle", why |-> "", i |-> 0, worker |-> <<>>,
     batch_id |-> 0, blob_names |-> <<>>, retry |-> FALSE, rerun |-> FALSE]

NoTable == [name |-> <<>>, rows |-> EmptyBag]

\* No remove_dupes call made.
NoRemoveDupes == [pc |-> "idle", worker |-> <<>>, batches |-> <<>>, k |-> 0]

\* The first record of the history of calls on a queue or on the queues.
NoCall ==
    [op |-> "init", ret |-> None, lateEnqueue |-> FALSE, capEnqueue |-> FALSE,
     smallEnqueue |-> FALSE, emptyDequeue |-> FALSE]

NoRegistryCall == [op |-> "init", worker |-> "", ret |-> None, known |-> FALSE]

\* A connection with no tables, an empty destination and no call made.
EngineInit ==
    /\ tables = <<>>
    /\ artifacts = <<>>
    /\ call = Idle
    /\ result = NoResult
    /\ ncalls = 0
    /\ dropped = NoTable
    /\ rd = NoRemoveDupes

\* A GoldskyQueues object that is never called.
RegistryIdle ==
    /\ gqs = [queues |-> <<>>, max_size |-> 0]
    /\ rlast = NoRegistryCall

QueueIdle ==
    /\ gq = NewQueue(0)
    /\ returned = <<>>
    /\ last = NoCall

(* --------------------------- a single queue ---------------------------- *)

QueueInit ==
    /\ \E m \in 0..MaxCap : gq = NewQueue(m)
    /\ returned = <<>>
    /\ last = NoCall
    /\ EngineInit
    /\ RegistryIdle

\* A caller enqueues an item.
Enqueue(item) ==
    /\ QueueLen(gq) < MaxPending
    /\ gq' = QueueEnqueue(gq, item)
    /\ returned' = returned
    /\ last' = [op |-> "enqueue", ret |-> None,
                lateEnqueue |-> last.lateEnqueue \/ returned # <<>>,
                capEnqueue |-> last.capEnqueue \/ CapReached(gq),
                smallEnqueue |-> \/ last.smallEnqueue
                                 \/ \E k \in DOMAIN returned :
                                        item.checkpoint < returned[k].checkpoint,
                emptyDequeue |-> last.emptyDequeue]
    /\ UNCHANGED <<mvars, rvars>>

\* A caller dequeues.
Dequeue ==
    LET r == QueueDequeue(gq)
    IN  /\ gq' = r.q
        /\ returned' = returned \o r.ret
        /\ last' = [last EXCEPT !.op = "dequeue", !.ret = r.ret,
                                !.emptyDequeue = @ \/ (~CapReached(gq) /\ gq.queue = <<>>)]
        /\ UNCHANGED <<mvars, rvars>>

QueueNext ==
    \/ \E item \in GoldskyQueueItem : Enqueue(item)
    \/ Dequeue

QueueSpec == QueueInit /\ [][QueueNext]_vars

(* ------------------------ the queues of workers ------------------------ *)

\* The workers that call the GoldskyQueues object, and the blob each one's
\* items name (a blob of the feed belongs to one worker).
RegWorkers == {"w1", "w2"}

WorkerBlob == [w \in RegWorkers |-> IF w = "w1" THEN "b1" ELSE "b2"]

\* self.queues.get(worker, GoldskyQueue(max_size=self.max_size))
QueuesGet(g, worker) ==
    IF worker \in DOMAIN g.queues THEN g.queues[worker] ELSE NewQueue(g.max_size)

\* self.queues[worker] = queue
QueuesSet(g, worker, queue) ==
    [g EXCEPT !.queues =
        [w \in DOMAIN g.queues \cup {worker} |-> IF w = worker THEN queue ELSE g.queues[w]]]

\* GoldskyQueues.workers()
RegistryWorkers(g) == DOMAIN g.queues

\* GoldskyQueues.status()
RegistryStatus(g) == [w \in DOMAIN g.queues |-> QueueLen(g.queues[w])]

RegistryInit ==
    /\ \E m \in 0..MaxCap : gqs = [queues |-> <<>>, max_size |-> m]
    /\ rlast = NoRegistryCall
    /\ QueueIdle
    /\ EngineInit

\* GoldskyQueues.enqueue(worker, item): the queue found or made is stored.
RegistryEnqueue(worker, item) ==
    /\ QueueLen(QueuesGet(gqs, worker)) < MaxRegPending
    /\ gqs' = QueuesSet(gqs, worker, QueueEnqueue(QueuesGet(gqs, worker), item))
    /\ rlast' = [op |-> "enqueue", worker |-> worker, ret |-> None,
                 known |-> worker \in DOMAIN gqs.queues]
    /\ UNCHANGED <<qvars, mvars>>

\* Mutant of RegistryDequeue: a worker without a queue is served from a queue
\* of another worker.
RegistryDequeue_Shared(worker) ==
    LET from == IF worker \in DOMAIN gqs.queues \/ DOMAIN gqs.queues = {}
                THEN worker
                ELSE CHOOSE w \in DOMAIN gqs.queues : TRUE
        r == QueueDequeue(QueuesGet(gqs, from))
    IN  /\ gqs' = IF from \in DOMAIN gqs.queues THEN QueuesSet(gqs, from, r.q) ELSE gqs
        /\ rlast' = [op |-> "dequeue", worker |-> worker, ret |-> r.ret,
                     known |-> worker \in DOMAIN gqs.queues]
        /\ UNCHANGED <<qvars, mvars>>

\* GoldskyQueues.dequeue(worker): the queue found is dequeued in place; a
\* queue made for a worker that has none is dequeued and then forgotten.
RegistryDequeue(worker) ==
    LET r == QueueDequeue(QueuesGet(gqs, worker))
    IN  /\ gqs' = IF worker \in DOMAIN gqs.queues THEN QueuesSet(gqs, worker, r.q) ELSE gqs
        /\ rlast' = [op |-> "dequeue", worker |-> worker, ret |-> r.ret,
                     known |-> worker \in DOMAIN gqs.queues]
        /\ UNCHANGED <<qvars, mvars>>

RegistryNext ==
    \/ \E worker \in RegWorkers, checkpoint \in 1..MaxCheckpoint :
          RegistryEnqueue(worker, [checkpoint |-> checkpoint,
                                   blob_name |-> WorkerBlob[worker]])
    \/ \E worker \in RegWorkers : RegistryDequeue(worker)

RegistrySpec == RegistryInit /\ [][RegistryNext]_vars

(* ------------------- GoldskyDuckDB.load_and_merge ---------------------- *)

\* CREATE [OR REPLACE] TABLE name AS rows
PutTable(t, name, rows) ==
    [n \in DOMAIN t \cup {name} |-> IF n = name THEN rows ELSE t[n]]

\* DROP TABLE name
DropTable(t, name) == [n \in DOMAIN t \ {name} |-> t[n]]

\* COPY table TO 'path' (the file is overwritten)
CopyTo(a, path, rows) ==
    [f \in DOMAIN a \cup {path} |-> IF f = path THEN rows ELSE a[f]]

\* A statement raises: the exception leaves load_and_merge, and the tables
\* made so far stay in the connection.
Raise(why) ==
    /\ call' = Idle
    /\ result' = [status |-> "error", at |-> call.pc, why |-> why, i |-> call.i,
                  worker |-> call.worker, batch_id |-> call.batch_id,
                  blob_names |-> call.blob_names, retry |-> call.retry,
                  rerun |-> call.rerun]
    /\ dropped' = NoTable

\* The place after the blobs are loaded, after the merge loop, and after the
\* snapshot of the batch is made.
AfterLoad(i, size) == IF i < size THEN "load" ELSE "create_merged"

AfterMerge(i, size) == IF i < size - 1 THEN "merge" ELSE "copy_table"

\* Mutant of AfterIds: the reconciliation is entered for every batch.
AfterIds_Always(batch_id) == "create_patch"

AfterIds(batch_id) == IF batch_id > 0 THEN "create_patch" ELSE "drop_merged"

\* load_and_merge(worker, batch_id, blob_names) is entered: no other call of
\* the engine is running.
BeginCall(worker, batch_id, blob_names) ==
    /\ call.pc = "idle"
    /\ rd.pc # "run"
    /\ ncalls' = ncalls + 1
    /\ call' = [pc |-> AfterLoad(0, Len(blob_names)), worker |-> worker,
                batch_id |-> batch_id, blob_names |-> blob_names, i |-> 0,
                checkpoint_temp_tables |-> <<>>,
                retry |-> /\ result.status = "error" /\ result.why = "io"
                          /\ result.at = "load"
                          /\ result.worker = worker /\ result.batch_id = batch_id
                          /\ result.blob_names = blob_names,
                rerun |-> /\ result.status = "ok"
                          /\ result.worker = worker /\ result.batch_id = batch_id
                          /\ result.blob_names = blob_names]
    /\ UNCHANGED <<tables, artifacts, result, dropped, qvars, rvars, rd>>

\* load_and_merge(worker, batch_id, blob_names) is called by any caller.
StartLoadAndMerge(worker, batch_id, blob_names) ==
    /\ ncalls < MaxCalls
    /\ BeginCall(worker, batch_id, blob_names)

\* Mutant of LoadBlob: each blob is copied to the destination table as soon
\* as it is read (a partial table is published before all blobs are read).
LoadBlob_Publishing ==
    /\ call.pc = "load"
    /\ LET name == checkpoint_temp_table(call.worker, call.batch_id, call.i)
           rows == WithCheckpointOrder(call.i, ReadParquet(call.blob_names[call.i + 1]))
       IN  IF name \in DOMAIN tables
           THEN Raise("exists") /\ UNCHANGED <<tables, artifacts>>
           ELSE /\ tables' = PutTable(tables, name, rows)
                /\ artifacts' = CopyTo(artifacts,
                       full_dest_table_path(call.worker, call.batch_id), rows)
                /\ call' = [call EXCEPT
                       !.checkpoint_temp_tables = Append(@, name),
                       !.i = IF call.i + 1 < Len(call.blob_names) THEN call.i + 1 ELSE 0,
                       !.pc = AfterLoad(call.i + 1, Len(call.blob_names))]
                /\ UNCHANGED <<result, dropped>>
    /\ UNCHANGED <<ncalls, qvars, rvars, rd>>

\* CREATE TEMP TABLE checkpoint_{worker}_{batch_id}_{i} AS SELECT {i} AS
\* checkpoint_order, * FROM read_parquet(blob i), the blob being readable.
LoadBlob ==
    /\ call.pc = "load"
    /\ LET name == checkpoint_temp_table(call.worker, call.batch_id, call.i)
       IN  IF name \in DOMAIN tables
           THEN Raise("exists") /\ UNCHANGED <<tables, artifacts>>
           ELSE /\ tables' = PutTable(tables, name,
                       WithCheckpointOrder(call.i, ReadParquet(call.blob_names[call.i + 1])))
                /\ call' = [call EXCEPT
                       !.checkpoint_temp_tables = Append(@, name),
                       !.i = IF call.i + 1 < Len(call.blob_names) THEN call.i + 1 ELSE 0,
                       !.pc = AfterLoad(call.i + 1, Len(call.blob_names))]
                /\ UNCHANGED <<artifacts, result, dropped>>
    /\ UNCHANGED <<ncalls, qvars, rvars, rd>>

\* The same statement with the blob missing or unreadable.
LoadBlobFails ==
    /\ call.pc = "load"
    /\ Raise("io")
    /\ UNCHANGED <<tables, artifacts, ncalls, qvars, rvars, rd>>

\* CREATE OR REPLACE TABLE merged AS SELECT * FROM checkpoint_{worker}_{batch_id}_0
CreateMerged ==
    /\ call.pc = "create_merged"
    /\ LET first == checkpoint_temp_table(call.worker, call.batch_id, 0)
       IN  IF first \notin DOMAIN tables
           THEN Raise("missing") /\ UNCHANGED <<tables, artifacts>>
           ELSE /\ tables' = PutTable(tables, merged_table(call.worker, call.batch_id),
                                      tables[first])
                /\ call' = [call EXCEPT !.pc = AfterMerge(0, Len(call.blob_names)),
                                        !.i = 0]
                /\ UNCHANGED <<artifacts, result, dropped>>
    /\ UNCHANGED <<ncalls, qvars, rvars, rd>>

\* One pass of "for i in range(size - 1)": the join, the DELETE and the INSERT.
MergeCheckpoint ==
    /\ call.pc = "merge"
    /\ LET merged == merged_table(call.worker, call.batch_id)
           checkpoint_table == call.checkpoint_temp_tables[call.i + 2]
       IN  tables' = PutTable(tables, merged,
                              MergeInto(tables[merged], tables[checkpoint_table]))
    /\ call' = [call EXCEPT
           !.i = IF call.i + 1 < Len(call.blob_names) - 1 THEN call.i + 1 ELSE 0,
           !.pc = AfterMerge(call.i + 1, Len(call.blob_names))]
    /\ UNCHANGED <<artifacts, result, ncalls, dropped, qvars, rvars, rd>>

\* COPY merged TO full_dest_table_path(worker, batch_id)
CopyTable ==
    /\ call.pc = "copy_table"
    /\ artifacts' = CopyTo(artifacts, full_dest_table_path(call.worker, call.batch_id),
                           tables[merged_table(call.worker, call.batch_id)])
    /\ call' = [call EXCEPT !.pc = "create_ids"]
    /\ UNCHANGED <<tables, result, ncalls, dropped, qvars, rvars, rd>>

\* A COPY to the bucket fails (the object store times out).
CopyFails ==
    /\ call.pc \in {"copy_table", "copy_patch"}
    /\ Raise("io")
    /\ UNCHANGED <<tables, artifacts, ncalls, qvars, rvars, rd>>

\* CREATE OR REPLACE TABLE merged_ids_{worker}_{batch_id} AS SELECT id FROM merged
CreateMergedIds ==
    /\ call.pc = "create_ids"
    /\ tables' = PutTable(tables, merged_ids_table(call.worker, call.batch_id),
                          SelectId(tables[merged_table(call.worker, call.batch_id)]))
    /\ call' = [call EXCEPT !.pc = AfterIds(call.batch_id)]
    /\ UNCHANGED <<artifacts, result, ncalls, dropped, qvars, rvars, rd>>

\* CREATE OR REPLACE TABLE delete_patch_{worker}_{prev_batch_id} AS the join
\* of merged_ids_{worker}_{prev_batch_id} with merged.
CreateDeletePatch ==
    /\ call.pc = "create_patch"
    /\ LET prev == merged_ids_table(call.worker, call.batch_id - 1)
       IN  IF prev \notin DOMAIN tables
           THEN Raise("missing") /\ UNCHANGED <<tables, artifacts>>
           ELSE /\ tables' = PutTable(tables,
                       delete_patch_table(call.worker, call.batch_id - 1),
                       DeletePatchRows(tables[prev],
                                       tables[merged_table(call.worker, call.batch_id)]))
                /\ call' = [call EXCEPT !.pc = "drop_prev_ids"]
                /\ UNCHANGED <<artifacts, result, dropped>>
    /\ UNCHANGED <<ncalls, qvars, rvars, rd>>

\* Mutant of DropPrevIds: the snapshot of the previous batch is not dropped.
DropPrevIds_Kept ==
    /\ call.pc = "drop_prev_ids"
    /\ dropped' = [name |-> merged_ids_table(call.worker, call.batch_id - 1),
                   rows |-> tables[merged_ids_table(call.worker, call.batch_id - 1)]]
    /\ call' = [call EXCEPT !.pc = "copy_patch"]
    /\ UNCHANGED <<tables, artifacts, result, ncalls, qvars, rvars, rd>>

\* DROP TABLE merged_ids_{worker}_{prev_batch_id}
DropPrevIds ==
    /\ call.pc = "drop_prev_ids"
    /\ LET prev == merged_ids_table(call.worker, call.batch_id - 1)
       IN  /\ tables' = DropTable(tables, prev)
           /\ dropped' = [name |-> prev, rows |-> tables[prev]]
    /\ call' = [call EXCEPT !.pc = "copy_patch"]
    /\ UNCHANGED <<artifacts, result, ncalls, qvars, rvars, rd>>

\* Mutant of CopyDeletePatch: the patch is copied to the delete path of
\* every older batch, not only of the previous one.
CopyDeletePatch_AllOlder ==
    /\ call.pc = "copy_patch"
    /\ LET patch == tables[delete_patch_table(call.worker, call.batch_id - 1)]
           older == {full_dest_delete_path(call.worker, k) : k \in 0..(call.batch_id - 1)}
       IN  artifacts' = [f \in DOMAIN artifacts \cup older |->
                            IF f \in older THEN patch ELSE artifacts[f]]
    /\ call' = [call EXCEPT !.pc = "drop_patch"]
    /\ UNCHANGED <<tables, result, ncalls, dropped, qvars, rvars, rd>>

\* COPY delete_patch_{worker}_{prev_batch_id} TO full_dest_delete_path(...)
CopyDeletePatch ==
    /\ call.pc = "copy_patch"
    /\ artifacts' = CopyTo(artifacts,
                           full_dest_delete_path(call.worker, call.batch_id - 1),
                           tables[delete_patch_table(call.worker, call.batch_id - 1)])
    /\ call' = [call EXCEPT !.pc = "drop_patch"]
    /\ UNCHANGED <<tables, result, ncalls, dropped, qvars, rvars, rd>>

\* DROP TABLE delete_patch_{worker}_{prev_batch_id}
DropDeletePatch ==
    /\ call.pc = "drop_patch"
    /\ tables' = DropTable(tables, delete_patch_table(call.worker, call.batch_id - 1))
    /\ call' = [call EXCEPT !.pc = "drop_merged"]
    /\ UNCHANGED <<artifacts, result, ncalls, dropped, qvars, rvars, rd>>

\* DROP TABLE merged
DropMerged ==
    /\ call.pc = "drop_merged"
    /\ tables' = DropTable(tables, merged_table(call.worker, call.batch_id))
    /\ call' = [call EXCEPT !.pc = "drop_checkpoints"]
    /\ UNCHANGED <<artifacts, result, ncalls, dropped, qvars, rvars, rd>>

\* The closing loop: every checkpoint temp table is dropped, errors ignored,
\* and load_and_merge returns.
DropCheckpoints ==
    /\ call.pc = "drop_checkpoints"
    /\ tables' = [n \in DOMAIN tables \
                        {call.checkpoint_temp_tables[k] :
                            k \in DOMAIN call.checkpoint_temp_tables} |-> tables[n]]
    /\ call' = Idle
    /\ result' = [status |-> "ok", at |-> "return", why |-> "", i |-> 0,
                  worker |-> call.worker, batch_id |-> call.batch_id,
                  blob_names |-> call.blob_names, retry |-> call.retry,
                  rerun |-> call.rerun]
    /\ dropped' = NoTable
    /\ UNCHANGED <<artifacts, ncalls, qvars, rvars, rd>>

MergeInit == EngineInit /\ QueueIdle /\ RegistryIdle

MergeNext ==
    \/ \E worker \in Workers, batch_id \in BatchIds, blob_names \in BlobLists :
          StartLoadAndMerge(worker, batch_id, blob_names)
    \/ LoadBlob
    \/ LoadBlobFails
    \/ CreateMerged
    \/ MergeCheckpoint
    \/ CopyTable
    \/ CopyFails
    \/ CreateMergedIds
    \/ CreateDeletePatch
    \/ DropPrevIds
    \/ CopyDeletePatch
    \/ DropDeletePatch
    \/ DropMerged
    \/ DropCheckpoints

MergeSpec == MergeInit /\ [][MergeNext]_vars

(* ------------------- two workers on one connection -------------------- *)

\* Two worker names; worker is any str, and the name of the second one starts
\* with "ids_".
TwoWorkers == {<<"x">>, <<"ids", "x">>}

\* load_and_merge is called for either worker.
StartForWorker(worker, batch_id, blob_names) ==
    /\ ncalls < MaxCalls
    /\ BeginCall(worker, batch_id, blob_names)

TwoWorkersNext ==
    \/ \E worker \in TwoWorkers, batch_id \in BatchIds, blob_names \in BlobLists :
          StartForWorker(worker, batch_id, blob_names)
    \/ LoadBlob
    \/ CreateMerged
    \/ MergeCheckpoint
    \/ CopyTable
    \/ CreateMergedIds
    \/ CreateDeletePatch
    \/ DropPrevIds
    \/ CopyDeletePatch
    \/ DropDeletePatch
    \/ DropMerged
    \/ DropCheckpoints

TwoWorkersSpec == MergeInit /\ [][TwoWorkersNext]_vars

(* ---------- batches merged in order, and remove_dupes at the end -------- *)

SeqBatchIds == 0..(MaxSeqCalls - 1)

\* The lists of batches a remove_dupes call may be given: batch ids in any
\* order, none twice, the empty list included.
BatchLists ==
    UNION {{s \in [1..n -> SeqBatchIds] : \A i, j \in 1..n : i # j => s[i] # s[j]}
             : n \in 0..MaxSeqCalls}

\* The batch a caller that merges in order turns to after the latest call.
NextBatchId == IF result.status = "none" THEN 0 ELSE result.batch_id + 1

\* The caller merges the next batch of the worker: every call so far has
\* completed.
MergeNextBatch(worker, blob_names) ==
    /\ ncalls < MaxSeqCalls
    /\ rd.pc = "idle"
    /\ result.status \in {"none", "ok"}
    /\ BeginCall(worker, NextBatchId, blob_names)

\* The caller runs the call that has just completed once more, with the same
\* arguments.
MergeAgain ==
    /\ ncalls < MaxSeqCalls
    /\ rd.pc = "idle"
    /\ result.status = "ok"
    /\ BeginCall(result.worker, result.batch_id, result.blob_names)

\* remove_dupes(worker, batches) is called; batches[-1] of an empty list
\* raises IndexError.
StartRemoveDupes(worker, batches) ==
    /\ call.pc = "idle"
    /\ rd.pc = "idle"
    /\ rd' = [pc |-> IF batches = <<>> THEN "error" ELSE "run",
              worker |-> worker, batches |-> batches, k |-> 0]
    /\ UNCHANGED <<tables, artifacts, call, result, ncalls, dropped, qvars, rvars>>

\* Mutant of DedupedRows: the flag last is ignored and the delete patch is
\* applied to every batch that has one.
DedupedRows_NoLast(table, patch, is_last) == DeleteWhereIdIn(table, IdSet(patch))

\* The rows remove_dupe_for_batch leaves in deduped_{worker}_{batch_id}.
DedupedRows(table, patch, is_last) ==
    IF is_last THEN table ELSE DeleteWhereIdIn(table, IdSet(patch))

\* One remove_dupe_for_batch(worker, batch_id, last) call of remove_dupes:
\* CREATE OR REPLACE TABLE deduped from the merged table file, the DELETE of
\* the ids of the delete patch file unless last, and the COPY to the deduped
\* path. A read_parquet of a file that is not there raises.
RemoveDupeForBatch ==
    /\ rd.pc = "run"
    /\ LET batch_id == rd.batches[rd.k + 1]
           is_last == rd.k + 1 = Len(rd.batches)
           table_path == full_dest_table_path(rd.worker, batch_id)
           delete_path == full_dest_delete_path(rd.worker, batch_id)
           deduped == deduped_table(rd.worker, batch_id)
       IN  IF table_path \notin DOMAIN artifacts
           THEN /\ rd' = [rd EXCEPT !.pc = "error"]
                /\ UNCHANGED <<tables, artifacts>>
           ELSE IF ~is_last /\ delete_path \notin DOMAIN artifacts
           THEN /\ rd' = [rd EXCEPT !.pc = "error"]
                /\ tables' = PutTable(tables, deduped, artifacts[table_path])
                /\ UNCHANGED artifacts
           ELSE LET patch == IF delete_path \in DOMAIN artifacts
                             THEN artifacts[delete_path] ELSE EmptyBag
                    rows == DedupedRows(artifacts[table_path], patch, is_last)
                IN  /\ tables' = PutTable(tables, deduped, rows)
                    /\ artifacts' = CopyTo(artifacts,
                           full_dest_deduped_path(rd.worker, batch_id), rows)
                    /\ rd' = [rd EXCEPT !.k = @ + 1,
                                        !.pc = IF is_last THEN "done" ELSE "run"]
    /\ UNCHANGED <<call, result, ncalls, dropped, qvars, rvars>>

SeqNext ==
    \/ \E worker \in Workers, blob_names \in BlobLists : MergeNextBatch(worker, blob_names)
    \/ MergeAgain
    \/ LoadBlob
    \/ CreateMerged
    \/ MergeCheckpoint
    \/ CopyTable
    \/ CreateMergedIds
    \/ CreateDeletePatch
    \/ DropPrevIds
    \/ CopyDeletePatch
    \/ DropDeletePatch
    \/ DropMerged
    \/ DropCheckpoints
    \/ \E worker \in Workers, batches \in BatchLists : StartRemoveDupes(worker, batches)
    \/ RemoveDupeForBatch

SeqSpec == MergeInit /\ [][SeqNext]_vars

(* ========================= claims on the queue ======================== *)

\* The items of a sequence as a bag.
SeqBag(s) ==
    [x \in {s[i] : i \in DOMAIN s} |-> Cardinality({i \in DOMAIN s : s[i] = x})]

\* The items now pending in the queue object.
Pending == {gq.queue[i] : i \in DOMAIN gq.queue}

\* A sequence of items is in non-decreasing checkpoint order.
NonDecreasing(s) ==
    \A i, j \in DOMAIN s : i < j => s[i].checkpoint <= s[j].checkpoint

Min(a, b) == IF a < b THEN a ELSE b

\* C1: over the whole life of a queue the number of dequeue calls that
\* returned an item never exceeds max_size, however many items were enqueued.
C1_DequeueCap == Len(returned) <= gq.max_size

\* C1 witness: the cap is used up, a further dequeue came back empty-handed
\* and items are still pending.
C1_Witness ==
    /\ gq.max_size > 0
    /\ Len(returned) = gq.max_size
    /\ last.op = "dequeue" /\ last.ret = None
    /\ QueueLen(gq) > 0

\* A dequeue step that returned an item took a pending item of smallest
\* checkpoint and removed exactly that item.
C2_DequeueStep ==
    (last'.op = "dequeue" /\ last'.ret # None) =>
        LET item == last'.ret[1]
        IN  /\ item \in Pending
            /\ \A x \in Pending : item.checkpoint <= x.checkpoint
            /\ SeqBag(gq.queue) = SeqBag(gq'.queue) (+) SetToBag({item})

\* While every enqueue came before the first returned item: the items
\* returned are in non-decreasing order, none is larger than a pending one,
\* and once a dequeue has come back empty min(n, m) items were returned.
C2_Drain ==
    ~last.lateEnqueue =>
        /\ NonDecreasing(returned)
        /\ \A i \in DOMAIN returned : \A x \in Pending :
               returned[i].checkpoint <= x.checkpoint
        /\ (last.op = "dequeue" /\ last.ret = None) =>
               Len(returned) = Min(Len(returned) + QueueLen(gq), gq.max_size)

\* C2: every dequeue that returns an item removes and returns a pending item
\* of smallest checkpoint; so n items enqueued in any order and then drained
\* from a queue of cap m come out as the min(n, m) smallest, in non-decreasing
\* order, and the next dequeue returns none.
C2_SmallestFirst == [][C2_DequeueStep]_vars /\ []C2_Drain

\* C2 witness: a queue of cap 2 filled and then drained: two items came out
\* in increasing order, a larger one is left and the third dequeue got none.
C2_Witness ==
    /\ ~last.lateEnqueue
    /\ gq.max_size = 2 /\ Len(returned) = 2
    /\ returned[1].checkpoint < returned[2].checkpoint
    /\ \E x \in Pending : returned[2].checkpoint < x.checkpoint
    /\ last.op = "dequeue" /\ last.ret = None

\* C3: once max_size items have been returned every later dequeue returns
\* none, also after further enqueues, and it leaves the pending items (and so
\* len()) as they are.
C3_CappedForGood ==
    [][(Len(returned) >= gq.max_size /\ last'.op = "dequeue") =>
          /\ last'.ret = None
          /\ gq'.queue = gq.queue
          /\ QueueLen(gq') = QueueLen(gq)]_vars

\* C3 witness: the cap was reached, an item was enqueued after that, and a
\* dequeue returned none with the item still pending.
C3_Witness ==
    /\ gq.max_size > 0
    /\ Len(returned) = gq.max_size
    /\ last.capEnqueue
    /\ last.op = "dequeue" /\ last.ret = None
    /\ QueueLen(gq) > 0

(* ------------------------- claims on the merge ------------------------- *)

\* The rows of table T with identifier x.
RowsOf(T, x) == [r \in {y \in DOMAIN T : y.id = x} |-> T[r]]

\* The ids held by the blobs of a list.
BatchIdsOf(names) == UNION {IdSet(BlobStore[names[i]]) : i \in DOMAIN names}

\* The position (from 0) of the latest blob of the list that holds id x.
LatestWith(names, x) ==
    CHOOSE i \in 0..(Len(names) - 1) :
        /\ x \in IdSet(BlobStore[names[i + 1]])
        /\ \A j \in (i + 1)..(Len(names) - 1) : x \notin IdSet(BlobStore[names[j + 1]])

\* Table T holds, for every id of the batch, the rows of the latest blob with
\* that id, marked with that blob's position, and no other row of that id.
NewestWins(T, names) ==
    \A x \in BatchIdsOf(names) :
        LET p == LatestWith(names, x)
        IN  RowsOf(T, x) = WithCheckpointOrder(p, RowsOf(BlobStore[names[p + 1]], x))

\* The merged table the call in progress has just published.
PublishedTable == artifacts[full_dest_table_path(call.worker, call.batch_id)]

\* C4: newest checkpoint wins: once the merged table of a batch is published
\* it holds, for every id of the batch's blobs, the version of the latest blob
\* holding that id and none of an older blob.
C4_NewestCheckpointWins ==
    call.pc = "create_ids" => NewestWins(PublishedTable, call.blob_names)

\* C4 witness: the batch b1, b2, b3 is published: B comes from b2 (position
\* 1, not from b1), C and D from b3.
C4_Witness ==
    /\ call.pc = "create_ids"
    /\ call.blob_names = <<"b1", "b2", "b3">>
    /\ [checkpoint_order |-> 1, id |-> "B", val |-> "b2"] \in DOMAIN PublishedTable
    /\ [checkpoint_order |-> 2, id |-> "C", val |-> "b3"] \in DOMAIN PublishedTable
    /\ [checkpoint_order |-> 0, id |-> "A", val |-> "b1"] \in DOMAIN PublishedTable

\* C5 (as claimed): in the merged table published for a non-empty blob list
\* every identifier occurs at most once.
C5_IdentifierUnique ==
    (call.pc = "create_ids" /\ call.blob_names # <<>>) =>
        \A x \in IdSet(PublishedTable) : IdCount(PublishedTable, x) <= 1

\* C6: the delete patch written for batch k while batch k + 1 is merged holds
\* exactly the ids that are both in the snapshot of batch k (dropped just
\* before) and in the merged table of batch k + 1.
C6_DeletePatchIsIntersection ==
    [][(call.pc = "copy_patch" /\ call'.pc = "drop_patch") =>
          LET path == full_dest_delete_path(call.worker, call.batch_id - 1)
          IN  /\ path \in DOMAIN artifacts'
              /\ dropped.name = merged_ids_table(call.worker, call.batch_id - 1)
              /\ IdSet(artifacts'[path]) =
                    IdSet(dropped.rows)
                       \cap IdSet(tables[merged_table(call.worker, call.batch_id)])]_vars

\* C6 witness: batch 0 merged to {A, B, C}, batch 1 to {B, C, D}, and the
\* delete patch of batch 0 is written as {B, C}.
C6_Witness ==
    /\ call.pc = "drop_patch" /\ call.batch_id = 1
    /\ IdSet(dropped.rows) = {"A", "B", "C"}
    /\ IdSet(tables[merged_table(call.worker, 1)]) = {"B", "C", "D"}
    /\ IdSet(artifacts[full_dest_delete_path(call.worker, 0)]) = {"B", "C"}

\* C7 (as claimed): a snapshot is deleted only when the delete patch of its
\* batch is already in the bucket.
C7_SnapshotOutlivesTombstone ==
    [][\A w \in Workers, k \in BatchIds :
          (/\ merged_ids_table(w, k) \in DOMAIN tables
           /\ merged_ids_table(w, k) \notin DOMAIN tables')
             => full_dest_delete_path(w, k) \in DOMAIN artifacts]_vars

\* The snapshots (merged_ids tables) of a catalog.
Snapshots(t) ==
    [n \in DOMAIN t \cap {merged_ids_table(w, k) : w \in Workers, k \in BatchIds}
        |-> t[n]]

\* C8: from the start of a call to the end of its loading of the blobs, a
\* failed read included, no file of the bucket is written and no snapshot is
\* made, changed or dropped; a failed read ends the call with an error.
C8_UnreadableBlobFailsWhole ==
    [][(call.pc = "load" \/ call'.pc = "load") =>
          /\ artifacts' = artifacts
          /\ Snapshots(tables') = Snapshots(tables)
          /\ call'.pc = "idle" => result'.status = "error"]_vars

\* C8 witness: batch 0 was merged, then the second blob of batch 1 could not
\* be read: the call failed, and the table and snapshot of batch 0 are there.
C8_Witness ==
    /\ call.pc = "idle"
    /\ result.status = "error" /\ result.at = "load" /\ result.why = "io"
    /\ result.batch_id = 1 /\ result.i = 1
    /\ full_dest_table_path(result.worker, 0) \in DOMAIN artifacts
    /\ full_dest_table_path(result.worker, 1) \notin DOMAIN artifacts
    /\ merged_ids_table(result.worker, 0) \in DOMAIN tables

\* C9 (as claimed): the retry of a call that aborted at an unreadable blob,
\* with the same arguments, succeeds as a first run would: it ends with an
\* error only when a blob or the bucket fails again or when, as for a first
\* run, the previous snapshot is missing, never because of the tables the
\* aborted attempt left in the connection.
C9_RetrySucceeds ==
    (result.retry /\ result.status = "error") =>
        (result.why = "io" \/ result.at = "create_patch")

\* C10 (as claimed): a call with batch_id > 0 and no snapshot of batch_id - 1
\* skips the reconciliation and completes: no call ends with an error raised
\* by the statement that reads the previous snapshot.
C10_ReconciliationSkipped ==
    ~(result.status = "error" /\ result.at = "create_patch")

\* The files of the bucket that a step writes or removes.
Written(a, b) ==
    {f \in DOMAIN a \cup DOMAIN b : f \notin DOMAIN a \cap DOMAIN b \/ a[f] # b[f]}

\* The places of load_and_merge that belong to the reconciliation.
ReconciliationPlaces == {"create_patch", "drop_prev_ids", "copy_patch", "drop_patch"}

\* C11: a call with batch_id = 0 does no reconciliation: it never comes to
\* the statements that read the previous snapshot; the only file it writes is
\* table_0 (no delete patch of any batch); it drops no snapshot, and the only
\* snapshot it makes or changes is the one of batch 0.
C11_BatchZeroNoReconciliation ==
    [][(call.pc # "idle" /\ call.batch_id = 0) =>
          /\ call'.pc \notin ReconciliationPlaces
          /\ Written(artifacts, artifacts') \subseteq
                 {full_dest_table_path(call.worker, 0)}
          /\ DOMAIN Snapshots(tables) \subseteq DOMAIN Snapshots(tables')
          /\ Written(Snapshots(tables), Snapshots(tables')) \subseteq
                 {merged_ids_table(call.worker, 0)}]_vars

\* C11 witness: a call for batch 1 has left the snapshot of batch 1 in the
\* catalog, then batch 0 was merged and completed: table_0 is published, the
\* snapshots of both batches are there and no delete patch was written.
C11_Witness ==
    /\ call.pc = "idle"
    /\ result.status = "ok" /\ result.batch_id = 0
    /\ full_dest_table_path(result.worker, 0) \in DOMAIN artifacts
    /\ merged_ids_table(result.worker, 0) \in DOMAIN tables
    /\ merged_ids_table(result.worker, 1) \in DOMAIN tables
    /\ \A k \in BatchIds : full_dest_delete_path(result.worker, k) \notin DOMAIN artifacts

(* ================== claims on the queues of workers =================== *)

\* C12 (as claimed): after a call of enqueue or dequeue for a worker the
\* GoldskyQueues object owns a queue for that worker: workers() lists it and
\* status() gives its depth (0 after a dequeue for a worker never enqueued).
C12_CreateOnRead ==
    rlast.op # "init" =>
        /\ rlast.worker \in RegistryWorkers(gqs)
        /\ (rlast.op = "dequeue" /\ ~rlast.known) => RegistryStatus(gqs)[rlast.worker] = 0

\* The items pending in a queue.
PendingIn(q) == {q.queue[i] : i \in DOMAIN q.queue}

\* C13: a dequeue for worker w returns nothing or an item that was pending in
\* the queue of w (an item enqueued under w: it names the blob of w); the
\* queue of every other worker, its pending items and its count of dequeues,
\* is as before; a worker without a queue gets none.
C13_WorkerIsolation ==
    [][rlast'.op = "dequeue" =>
          LET w == rlast'.worker
          IN  /\ \A v \in RegWorkers \ {w} :
                    /\ (v \in DOMAIN gqs.queues) = (v \in DOMAIN gqs'.queues)
                    /\ v \in DOMAIN gqs.queues => gqs'.queues[v] = gqs.queues[v]
              /\ w \notin DOMAIN gqs.queues => rlast'.ret = None
              /\ rlast'.ret # None =>
                    /\ rlast'.ret[1] \in PendingIn(gqs.queues[w])
                    /\ rlast'.ret[1].blob_name = WorkerBlob[w]]_vars

\* C13 witness: w2, which has no queue, has just dequeued and got none, while
\* w1 has an item pending and has used one dequeue of its budget.
C13_Witness ==
    /\ rlast.op = "dequeue" /\ rlast.worker = "w2" /\ rlast.ret = None
    /\ "w2" \notin DOMAIN gqs.queues
    /\ "w1" \in DOMAIN gqs.queues
    /\ QueueLen(gqs.queues["w1"]) = 1
    /\ gqs.queues["w1"]._dequeues = 1

(* ================= claims on batches merged in order ================== *)

\* C14 (as claimed): a second run of load_and_merge with the arguments of the
\* run that has just completed completes too, for batch_id = 0 and for
\* batch_id > 0 alike.
C14_RerunCompletes == result.rerun => result.status = "ok"

\* The records of a table whose id is not among the ids of a patch.
Minus(table, patch) ==
    LET keep == {r \in DOMAIN table : \A d \in DOMAIN patch : d.id # r.id}
    IN  [r \in keep |-> table[r]]

\* C15: when remove_dupes(worker, batches) has completed, the deduped file
\* of every batch of the list but the last holds the merged table of the
\* batch minus the records whose id is in the delete patch of that batch, and
\* the deduped file of the last batch holds its whole merged table.
C15_RemoveDupes ==
    rd.pc = "done" =>
        \A k \in DOMAIN rd.batches :
            LET b == rd.batches[k]
                table == artifacts[full_dest_table_path(rd.worker, b)]
                deduped == artifacts[full_dest_deduped_path(rd.worker, b)]
            IN  IF k = Len(rd.batches)
                THEN deduped = table
                ELSE deduped = Minus(table,
                                     artifacts[full_dest_delete_path(rd.worker, b)])

\* C15 witness: remove_dupes(worker, [0, 1]) has completed where batch 1 is
\* the newest batch merged but not the last one merged with a delete patch
\* in the bucket: the deduped file of batch 0 lost some records of table_0
\* and kept others, and the deduped file of batch 1 is the whole table_1.
C15_Witness ==
    /\ rd.pc = "done" /\ rd.batches = <<0, 1>>
    /\ LET table0 == artifacts[full_dest_table_path(rd.worker, 0)]
           deduped0 == artifacts[full_dest_deduped_path(rd.worker, 0)]
       IN  /\ deduped0 # table0
           /\ deduped0 # EmptyBag
    /\ full_dest_delete_path(rd.worker, 1) \in DOMAIN artifacts
    /\ artifacts[full_dest_delete_path(rd.worker, 1)] # EmptyBag
    /\ artifacts[full_dest_deduped_path(rd.worker, 1)] =
           artifacts[full_dest_table_path(rd.worker, 1)]

(* ======================= claims on two workers ======================== *)

\* What a catalog or the bucket holds under a name.
Held(t, n) == IF n \in DOMAIN t THEN Some(t[n]) ELSE None

\* C16 (as claimed): no step of a load_and_merge call for one worker makes,
\* changes or drops a snapshot of another worker, or writes a file of
\* another worker.
C16_WorkersIndependent ==
    [][call.pc # "idle" =>
          \A w \in TwoWorkers \ {call.worker}, k \in BatchIds :
              /\ Held(tables', merged_ids_table(w, k)) = Held(tables, merged_ids_table(w, k))
              /\ Held(artifacts', full_dest_table_path(w, k)) =
                     Held(artifacts, full_dest_table_path(w, k))
              /\ Held(artifacts', full_dest_delete_path(w, k)) =
                     Held(artifacts, full_dest_delete_path(w, k))]_vars

(* ============== claims on a queue with late enqueues ================== *)

\* C17 (as claimed): whatever the order of the enqueue and dequeue calls, the
\* items returned so far are in non-decreasing checkpoint order.
C17_AlwaysOrdered == NonDecreasing(returned)

\* C17 (amended): as long as no item was enqueued with a checkpoint smaller
\* than the checkpoint of an item already returned, the items returned so
\* far are in non-decreasing checkpoint order, enqueues between the dequeues
\* included.
C17_OrderedUnlessSmallerLate == ~last.smallEnqueue => NonDecreasing(returned)

\* C17 witness: an item was enqueued after the first item was returned, none
\* of the late items was smaller than a returned one, and two items of
\* different checkpoints were returned.
C17_Witness ==
    /\ last.lateEnqueue /\ ~last.smallEnqueue
    /\ Len(returned) = 2
    /\ returned[1].checkpoint < returned[2].checkpoint

\* C20: a dequeue that finds the heap empty returns None and leaves the queue
\* object as it was, its count of dequeues included; the count of dequeues is
\* always the number of items returned, so only returned items use the cap.
C20_EmptyDequeueIsFree ==
    /\ [][(last'.op = "dequeue" /\ gq.queue = <<>>) =>
             (last'.ret = None /\ gq' = gq /\ returned' = returned)]_vars
    /\ [](gq._dequeues = Len(returned))

\* C20 witness: a queue with max_size 2 was dequeued while empty and below
\* its cap, and afterwards returned two items, the full cap.
C20_Witness ==
    /\ last.emptyDequeue
    /\ gq.max_size = 2
    /\ Len(returned) = 2

(* ============ claims on the snapshots of batches in order ============= *)

\* The batches of a worker that have a snapshot in the catalog.
SnapshotBatches(worker) ==
    {k \in SeqBatchIds : merged_ids_table(worker, k) \in DOMAIN tables}

\* C18: when the batches of a worker are merged in order, each call
\* completing, then after the merge of batch n the only snapshot of the
\* worker is the one of batch n; and the snapshot of a batch k is dropped
\* only by the call that merges batch k + 1, at its DROP of the previous
\* snapshot.
C18_SnapshotLifecycle ==
    /\ []((call.pc = "idle" /\ result.status = "ok") =>
             SnapshotBatches(result.worker) = {result.batch_id})
    /\ [][\A w \in Workers, k \in SeqBatchIds :
             (/\ merged_ids_table(w, k) \in DOMAIN tables
              /\ merged_ids_table(w, k) \notin DOMAIN tables')
                => (/\ call.worker = w
                    /\ call.batch_id = k + 1
                    /\ call.pc = "drop_prev_ids")]_vars

\* C18 witness: batches 0, 1 and 2 were merged in order, no call repeated;
\* the call for batch 2 has completed and the snapshot of batch 2 is the only
\* one.
C18_Witness ==
    /\ call.pc = "idle" /\ ncalls = 3
    /\ result.status = "ok" /\ result.batch_id = 2
    /\ SnapshotBatches(result.worker) = {2}
    /\ full_dest_delete_path(result.worker, 0) \in DOMAIN artifacts
    /\ full_dest_delete_path(result.worker, 1) \in DOMAIN artifacts

\* The ids of the file at a path of the bucket; none when it is not there.
IdsAt(path) == IF path \in DOMAIN artifacts THEN IdSet(artifacts[path]) ELSE {}

\* C19: a load_and_merge call for batch j writes no file other than table_j
\* and, at most once, the delete patch of batch j - 1, so the table and the
\* delete patch of every older batch stay as they are; and an id that is in
\* the tables of batch k and of batch k + 2 but not in the table of batch
\* k + 1 is not in the delete patch of batch k.
C19_OneHopReconciliation ==
    /\ [][call.pc # "idle" =>
             Written(artifacts, artifacts') \subseteq
                 {full_dest_table_path(call.worker, call.batch_id)} \cup
                 {full_dest_delete_path(call.worker, j) :
                      j \in {call.batch_id - 1} \cap SeqBatchIds}]_vars
    /\ [](\A w \in Workers, k \in SeqBatchIds : \A x \in IdsAt(full_dest_table_path(w, k)) :
             (/\ k + 2 \in SeqBatchIds
              /\ x \notin IdsAt(full_dest_table_path(w, k + 1))
              /\ x \in IdsAt(full_dest_table_path(w, k + 2)))
                => x \notin IdsAt(full_dest_delete_path(w, k)))

\* C19 witness: batches 0, 1 and 2 were merged in order; id C is in the
\* tables of batch 0 and of batch 2 and not in the table of batch 1; the
\* delete patch of batch 0 holds B only and the one of batch 1 holds D only.
C19_Witness ==
    /\ call.pc = "idle" /\ result.status = "ok" /\ result.batch_id = 2
    /\ "C" \in IdsAt(full_dest_table_path(result.worker, 0))
    /\ "C" \notin IdsAt(full_dest_table_path(result.worker, 1))
    /\ "C" \in IdsAt(full_dest_table_path(result.worker, 2))
    /\ IdsAt(full_dest_delete_path(result.worker, 0)) = {"B"}
    /\ IdsAt(full_dest_delete_path(result.worker, 1)) = {"D"}

====
